---- MODULE Spec2Model ----
(***************************************************************************)
(* SiteScout-AI: the environment-backed Config (agent/chat/config.py), the *)
(* RAGAgent orchestrator (agent/chat/manager.py) and the entry script      *)
(* (run_agent.py), as state machines.                                      *)
(*                                                                         *)
(* Strings are sequences of one-character strings, so that lower(),        *)
(* strip() and int() are computed and not assumed.  A value that Python    *)
(* holds as "None or a str" is a record [set, text]: set = FALSE is None.  *)
(***************************************************************************)
EXTENDS Integers, Sequences, FiniteSets, TLC

VARIABLES
    env,            \* os.environ, as read by os.getenv
    cfg,            \* the Config object (NoConfig before construction)
    raised,         \* exceptions validate() has raised so far, in order
    log,            \* records emitted through logging.*, in order
    snap,           \* the last as_dict() result (NoSnap before any)
    trace,          \* the operations started so far, in order
    pc,             \* position of the running procedure
    ret,            \* where ensure_index returns to
    pyver,          \* sys.version_info: <<major, minor>>
    exit,           \* how the process has ended, "running" until then
    outcome,        \* which path of main() ended the run
    heavy,          \* agent.chat.manager (llama_index, ...) has been imported
    persisted,      \* the store holds an index for the key
    index,          \* index_manager.index: NoIndex or a handle
    agent_manager,  \* RAGAgent.agent_manager: NoAgent or the bound handle
    calls,          \* index/agent calls made so far, in order
    answer,         \* the line read by ensure_index's confirmation prompt
    query,          \* the line read by main's question prompt
    stdout          \* what main() has printed

cfgVars == <<env, cfg, raised, log, snap>>
ragVars == <<persisted, index, agent_manager, calls, answer>>
mainVars == <<pyver, exit, outcome, heavy, query, stdout>>
vars == <<env, cfg, raised, log, snap, trace, pc, ret, pyver, exit, outcome,
          heavy, persisted, index, agent_manager, calls, answer, query, stdout>>

----------------------------------------------------------------------------
(* Bounds of the model. *)

\* longest text tried for CHUNK_SIZE / STORE_PORT
MaxTextLen == 2
\* longest line typed at an input() prompt
MaxLineLen == 2
\* method calls made on one Config object after construction
MaxCfgCalls == 2
\* calls an arbitrary caller makes on one RAGAgent
MaxCalls == 3

----------------------------------------------------------------------------
(* Python str / None. *)

Unset == [set |-> FALSE, text |-> <<>>]
Str(t) == [set |-> TRUE, text |-> t]

\* bool(x) for x a str or None
Truthy(o) == o.set /\ o.text # <<>>

\* a or b
Or(a, b) == IF Truthy(a) THEN a ELSE b

\* os.getenv(name, default): the default only when the variable is absent
GetenvDefault(o, d) == IF o.set THEN o ELSE d

UpperAlpha == <<"A","B","C","D","E","F","G","H","I","J","K","L","M",
                "N","O","P","Q","R","S","T","U","V","W","X","Y","Z">>
LowerAlpha == <<"a","b","c","d","e","f","g","h","i","j","k","l","m",
                "n","o","p","q","r","s","t","u","v","w","x","y","z">>

LowerChar(c) ==
    IF \E i \in 1..Len(UpperAlpha) : UpperAlpha[i] = c
    THEN LowerAlpha[CHOOSE i \in 1..Len(UpperAlpha) : UpperAlpha[i] = c]
    ELSE c

\* str.lower()
Lower(t) == [i \in 1..Len(t) |-> LowerChar(t[i])]

Whitespace == {" ", "\t"}

RECURSIVE LStrip(_)
LStrip(t) == IF t # <<>> /\ Head(t) \in Whitespace THEN LStrip(Tail(t)) ELSE t

RECURSIVE RStrip(_)
RStrip(t) ==
    IF t # <<>> /\ t[Len(t)] \in Whitespace
    THEN RStrip(SubSeq(t, 1, Len(t) - 1))
    ELSE t

\* str.strip()
Strip(t) == RStrip(LStrip(t))

Digits == <<"0","1","2","3","4","5","6","7","8","9">>
IsDigit(c) == \E i \in 1..10 : Digits[i] = c
DigitVal(c) == (CHOOSE i \in 1..10 : Digits[i] = c) - 1

RECURSIVE DecVal(_)
DecVal(ds) ==
    IF ds = <<>> THEN 0
    ELSE 10 * DecVal(SubSeq(ds, 1, Len(ds) - 1)) + DigitVal(ds[Len(ds)])

\* int(s) for a str s: surrounding whitespace, an optional sign, then digits.
\* PyIntOk is FALSE where int() raises ValueError.
Unsigned(t) == IF t # <<>> /\ Head(t) \in {"+", "-"} THEN Tail(t) ELSE t
PyIntOk(t) ==
    LET u == Unsigned(Strip(t))
    IN u # <<>> /\ \A i \in 1..Len(u) : IsDigit(u[i])
PyIntVal(t) ==
    LET s == Strip(t)
    IN IF Head(s) = "-" THEN 0 - DecVal(Unsigned(s)) ELSE DecVal(Unsigned(s))

\* All texts over an alphabet up to a length.
Texts(chars, n) == UNION {[1..k -> chars] : k \in 0..n}

----------------------------------------------------------------------------
(* The texts the model names. *)

openai == <<"o","p","e","n","a","i">>
ollama == <<"o","l","l","a","m","a">>
open_source == <<"o","p","e","n","_","s","o","u","r","c","e">>
redis == <<"r","e","d","i","s">>
mongodb == <<"m","o","n","g","o","d","b">>
localhost == <<"l","o","c","a","l","h","o","s","t">>
default == <<"d","e","f","a","u","l","t">>

DefaultStorePort == 6379
DefaultChunkSize == 1024

----------------------------------------------------------------------------
(* agent/chat/config.py.  The settings modelled are the ones validate(),    *)
(* as_dict() and the entry script branch on; OPENAI_MODEL/MODEL,            *)
(* CHROMA_PERSIST_DIR, INPUT_FILES, EMBEDDING_MODEL, TEMPERATURE and        *)
(* PERSIST_DISK are copied through by the code and are left out.            *)

NoConfig == [built |-> FALSE]
NoSnap == [taken |-> FALSE]

\* EnvInt with the except branch assigning 0 in place of the default
EnvInt_ZeroOnError(o, d) ==
    IF ~o.set THEN d
    ELSE IF PyIntOk(o.text) THEN PyIntVal(o.text)
    ELSE 0

\* try: int(os.getenv(NAME, d))  except (TypeError, ValueError): d
EnvInt(o, d) ==
    IF ~o.set THEN d
    ELSE IF PyIntOk(o.text) THEN PyIntVal(o.text)
    ELSE d

\* Config.__init__
ConfigInit(e) ==
    [built |-> TRUE,
     OPENAI_API_KEY |-> e.OPENAI_API_KEY,
     MODEL_TYPE |-> Lower(Or(e.MODEL_TYPE, Str(openai)).text),
     OLLAMA_BASE_URL |-> e.OLLAMA_BASE_URL,
     OLLAMA_MODEL |-> e.OLLAMA_MODEL,
     store_type |-> Lower(Or(e.STORE_TYPE, Str(redis)).text),
     STORE_HOST |-> GetenvDefault(e.STORE_HOST, Str(localhost)),
     STORE_PORT |-> EnvInt(e.STORE_PORT, DefaultStorePort),
     URI |-> e.MONGODB_URI,
     NAMESPACE |-> Or(e.NAMESPACE, Or(e.MONGODB_DB, Str(default))).text,
     CHUNK_SIZE |-> EnvInt(e.CHUNK_SIZE, DefaultChunkSize)]

OpenAIKeyError == "OPENAI_API_KEY is required when MODEL_TYPE=openai"
OllamaError == "OLLAMA_BASE_URL or OLLAMA_MODEL should be set for open_source/ollama MODEL_TYPE"
MongoError == "MONGODB_URI or STORE_HOST/STORE_PORT must be set for mongodb STORE_TYPE"

\* NeedsOpenAIKey testing "is None" in place of "not": an empty key passes
NeedsOpenAIKey_IsNone(c) == c.MODEL_TYPE = openai /\ ~c.OPENAI_API_KEY.set

\* the three checks of validate(), in order
NeedsOpenAIKey(c) == c.MODEL_TYPE = openai /\ ~Truthy(c.OPENAI_API_KEY)
NeedsOllama(c) ==
    /\ c.MODEL_TYPE \in {open_source, ollama}
    /\ ~(Truthy(c.OLLAMA_BASE_URL) \/ Truthy(c.OLLAMA_MODEL))
NeedsMongo(c) ==
    /\ c.store_type = mongodb
    /\ ~(Truthy(c.URI) \/ (Truthy(c.STORE_HOST) /\ c.STORE_PORT # 0))

ValidationErrors(c) ==
    (IF NeedsOpenAIKey(c) THEN <<OpenAIKeyError>> ELSE <<>>)
    \o (IF NeedsOllama(c) THEN <<OllamaError>> ELSE <<>>)
    \o (IF NeedsMongo(c) THEN <<MongoError>> ELSE <<>>)

\* "Configuration validation failed: " + "; ".join(errors)
ValidationMessage(errors) == <<"Configuration validation failed: ">> \o errors

\* Config.validate(strict): what it raises and what it logs
ValidateRaises(c, strict) ==
    IF ValidationErrors(c) # <<>> /\ strict
    THEN <<[type |-> "RuntimeError", msg |-> ValidationMessage(ValidationErrors(c))]>>
    ELSE <<>>
ValidateLogs(c, strict) ==
    IF ValidationErrors(c) # <<>> /\ ~strict
    THEN <<[level |-> "WARNING", msg |-> ValidationMessage(ValidationErrors(c))]>>
    ELSE <<>>

\* Config.as_dict
AsDict(c) ==
    [taken |-> TRUE,
     MODEL_TYPE |-> c.MODEL_TYPE,
     OPENAI_API_KEY |-> Truthy(c.OPENAI_API_KEY),
     OLLAMA_BASE_URL |-> c.OLLAMA_BASE_URL,
     OLLAMA_MODEL |-> c.OLLAMA_MODEL,
     store_type |-> c.store_type,
     STORE_HOST |-> c.STORE_HOST,
     STORE_PORT |-> c.STORE_PORT,
     URI |-> c.URI,
     NAMESPACE |-> c.NAMESPACE,
     CHUNK_SIZE |-> c.CHUNK_SIZE]

----------------------------------------------------------------------------
(* The environments tried. *)

Opt(texts) == {Unset} \cup {Str(t) : t \in texts}

KeyTexts == {<<>>, <<"k","1">>, <<"k","2">>}
ModelTypeTexts ==
    {<<>>, openai, <<"O","P","E","N","A","I">>, <<"O","p","e","n","A","I">>,
     ollama, open_source}
StoreTypeTexts == {redis, mongodb, <<"M","o","n","g","o","D","B">>}
HostTexts == {<<>>, <<"h">>}
\* a connection string user:password@host
UriTexts == {<<>>, <<"u",":","p","@","h">>, <<"u",":","q","@","h">>}
PortTexts == {<<>>, <<"0">>, <<"7">>}
NumberChars == {"0", "7", "-", " ", "a"}
NumberTexts == Texts(NumberChars, MaxTextLen)
NamespaceTexts == {<<>>, <<"n">>}

\* every LLM setting against every storage setting
SettingsEnvs ==
    [OPENAI_API_KEY : Opt(KeyTexts), MODEL_TYPE : Opt(ModelTypeTexts),
     OLLAMA_BASE_URL : Opt({<<"b">>}), OLLAMA_MODEL : Opt({<<"m">>}),
     STORE_TYPE : Opt(StoreTypeTexts), STORE_HOST : Opt(HostTexts),
     STORE_PORT : Opt(PortTexts), MONGODB_URI : Opt(UriTexts),
     NAMESPACE : {Unset}, MONGODB_DB : {Unset}, CHUNK_SIZE : {Unset}]

\* every text for the two integer settings
NumberEnvs ==
    [OPENAI_API_KEY : {Str(<<"k","1">>)}, MODEL_TYPE : {Unset},
     OLLAMA_BASE_URL : {Unset}, OLLAMA_MODEL : {Unset},
     STORE_TYPE : {Unset}, STORE_HOST : {Unset},
     STORE_PORT : Opt(NumberTexts), MONGODB_URI : {Unset},
     NAMESPACE : {Unset}, MONGODB_DB : {Unset},
     CHUNK_SIZE : Opt(NumberTexts)]

\* the namespace and its fallbacks
NamespaceEnvs ==
    [OPENAI_API_KEY : {Str(<<"k","1">>)}, MODEL_TYPE : {Unset},
     OLLAMA_BASE_URL : {Unset}, OLLAMA_MODEL : {Unset},
     STORE_TYPE : {Unset}, STORE_HOST : {Unset},
     STORE_PORT : {Unset}, MONGODB_URI : {Unset},
     NAMESPACE : Opt(NamespaceTexts), MONGODB_DB : Opt(NamespaceTexts),
     CHUNK_SIZE : {Unset}]

ConfigEnvs == SettingsEnvs \cup NumberEnvs \cup NamespaceEnvs

----------------------------------------------------------------------------
(* A caller that builds one Config and calls its methods.  trace holds the  *)
(* calls made.                                                              *)

InitConfig ==
    /\ env \in ConfigEnvs
    /\ cfg = NoConfig
    /\ raised = <<>>
    /\ log = <<>>
    /\ snap = NoSnap
    /\ trace = <<>>
    /\ pc = "caller"
    /\ ret = "caller"
    /\ pyver = <<3, 11>>
    /\ exit = "running"
    /\ outcome = "none"
    /\ heavy = FALSE
    /\ persisted = FALSE
    /\ index = [h |-> 0]
    /\ agent_manager = [h |-> 0]
    /\ calls = <<>>
    /\ answer = Unset
    /\ query = Unset
    /\ stdout = <<>>

\* config = Config()
Construct ==
    /\ pc = "caller"
    /\ ~cfg.built
    /\ cfg' = ConfigInit(env)
    /\ trace' = Append(trace, "Config")
    /\ UNCHANGED <<env, raised, log, snap, pc, ret>>
    /\ UNCHANGED mainVars
    /\ UNCHANGED ragVars

\* config.validate(strict), the caller catching what it raises
Validate ==
    /\ pc = "caller"
    /\ cfg.built
    /\ Len(trace) <= MaxCfgCalls
    /\ \E strict \in BOOLEAN :
        /\ raised' = raised \o ValidateRaises(cfg, strict)
        /\ log' = log \o ValidateLogs(cfg, strict)
        /\ trace' = Append(trace, IF strict THEN "validate_strict" ELSE "validate")
    /\ UNCHANGED <<env, cfg, snap, pc, ret>>
    /\ UNCHANGED mainVars
    /\ UNCHANGED ragVars

\* config.as_dict()
Snapshot ==
    /\ pc = "caller"
    /\ cfg.built
    /\ Len(trace) <= MaxCfgCalls
    /\ snap' = AsDict(cfg)
    /\ trace' = Append(trace, "as_dict")
    /\ UNCHANGED <<env, cfg, raised, log, pc, ret>>
    /\ UNCHANGED mainVars
    /\ UNCHANGED ragVars

NextConfig == Construct \/ Validate \/ Snapshot

SpecConfig == InitConfig /\ [][NextConfig]_vars

----------------------------------------------------------------------------
(* The index manager behind RAGAgent.index_manager (agent/chat/index.py).   *)
(* A handle is the position in calls of the call that produced it; 0 is     *)
(* None.                                                                    *)

NoIndex == [h |-> 0]
NoAgent == [h |-> 0]

Call(op, by, h, st) == [op |-> op, by |-> by, h |-> h, st |-> st]

\* load_index(key): a handle when one is persisted, None when none is; a
\* backend may raise instead.
LoadOutcomes == (IF persisted THEN {"hit"} ELSE {"miss"}) \cup {"raise"}

\* index_manager.index after load_index returned handle h
IndexAfterLoad(idx, h) == idx

\* index_manager.index after create_index built handle h
IndexAfterCreate(idx, h) == [h |-> h]

----------------------------------------------------------------------------
(* agent/chat/manager.py: RAGAgent.                                         *)

\* RunLoads without the in-memory test: run() always loads
RunLoads_AlwaysLoad == LoadOutcomes

\* run(): "if self.index_manager.index: ... else: load_index(key_name)"
RunLoads == IF index # NoIndex THEN {"cached"} ELSE LoadOutcomes

\* how run() can end once the index is resolved: AgentManager(None, ...)
\* fails on index.as_query_engine(); building the agent and chat() may raise
RunEnds(ld) ==
    CASE ld = "raise" -> {"load_raise"}
      [] ld = "miss" -> {"no_index"}
      [] OTHER -> {"ok", "agent_raise", "chat_raise", "interrupt"}

\* the calls run() makes, by how it ends
RunCalls(ld, res) ==
    LET n == Len(calls) + 1
        h == IF ld = "cached" THEN index.h ELSE n
        load == CASE ld = "cached" -> <<>>
                  [] ld = "hit" -> <<Call("load_index", "run", n, "hit")>>
                  [] OTHER -> <<Call("load_index", "run", 0, ld)>>
    IN CASE res = "load_raise" -> load
         [] res = "no_index" -> load \o <<Call("AgentManager", "run", 0, "raise")>>
         [] res = "agent_raise" -> load \o <<Call("AgentManager", "run", h, "raise")>>
         [] res = "ok" ->
              load \o <<Call("AgentManager", "run", h, "ok"), Call("chat", "run", h, "ok")>>
         [] OTHER ->
              load \o <<Call("AgentManager", "run", h, "ok"), Call("chat", "run", h, res)>>

\* RAGAgent.run(prompt, key_name)
RAGAgent_run(ld, res) ==
    /\ ld \in RunLoads
    /\ res \in RunEnds(ld)
    /\ calls' = calls \o RunCalls(ld, res)
    /\ agent_manager' =
         IF res \in {"ok", "chat_raise", "interrupt"}
         THEN [h |-> IF ld = "cached" THEN index.h ELSE Len(calls) + 1]
         ELSE agent_manager
    /\ index' = IF ld = "hit" THEN IndexAfterLoad(index, Len(calls) + 1) ELSE index
    /\ UNCHANGED persisted

\* RAGAgent.create_index(key_name)
RAGAgent_create_index(by, st) ==
    /\ st \in {"ok", "raise", "interrupt"}
    /\ calls' = Append(calls, Call("create_index", by, IF st = "ok" THEN Len(calls) + 1 ELSE 0, st))
    /\ index' = IF st = "ok" THEN IndexAfterCreate(index, Len(calls) + 1) ELSE index
    /\ persisted' = (persisted \/ st = "ok")
    /\ UNCHANGED agent_manager

----------------------------------------------------------------------------
(* run_agent.py: ensure_index, in three steps.  pc' = ret is its return.    *)

Info(m) == [level |-> "INFO", msg |-> <<m>>]
Warning(m) == [level |-> "WARNING", msg |-> <<m>>]
Error(m) == [level |-> "ERROR", msg |-> <<m>>]

LineChars == {"y", "Y", "n", " "}
Lines == Texts(LineChars, MaxLineLen)

\* Confirms as "anything but n"
Confirms_NotNo(line) == Lower(Strip(line)) # <<"n">>

\* input(...).strip().lower() == "y"
Confirms(line) == Lower(Strip(line)) = <<"y">>

\* a KeyboardInterrupt that no handler catches ends the process
Interrupted(where) ==
    /\ pc' = "done"
    /\ exit' = "KeyboardInterrupt"
    /\ outcome' = where

\* EnsureLoad without the inner try: an exception of load_index reaches the
\* outer handler, which logs it and returns without prompting
EnsureLoad_NoInnerTry ==
    /\ pc = "ensure_load"
    /\ \E ld \in LoadOutcomes \cup {"interrupt"} :
        /\ calls' = Append(calls,
             Call("load_index", "ensure_index", IF ld = "hit" THEN Len(calls) + 1 ELSE 0, ld))
        /\ index' = IF ld = "hit" THEN IndexAfterLoad(index, Len(calls) + 1) ELSE index
        /\ CASE ld = "hit" ->
                  /\ log' = Append(log, Info("Index loaded for key: %s"))
                  /\ pc' = ret
                  /\ UNCHANGED <<exit, outcome>>
             [] ld = "interrupt" ->
                  /\ Interrupted("ensure_interrupt")
                  /\ UNCHANGED log
             [] ld = "raise" ->
                  /\ log' = Append(log, Error("Error while ensuring index: %s"))
                  /\ pc' = ret
                  /\ UNCHANGED <<exit, outcome>>
             [] OTHER ->
                  /\ pc' = "ensure_prompt"
                  /\ UNCHANGED <<log, exit, outcome>>
    /\ UNCHANGED <<env, cfg, raised, snap, trace, ret, pyver, heavy, persisted,
                   agent_manager, answer, query, stdout>>

\* index = rag.index_manager.load_index(key_name), inside its own try
EnsureLoad ==
    /\ pc = "ensure_load"
    /\ \E ld \in LoadOutcomes \cup {"interrupt"} :
        /\ calls' = Append(calls,
             Call("load_index", "ensure_index", IF ld = "hit" THEN Len(calls) + 1 ELSE 0, ld))
        /\ index' = IF ld = "hit" THEN IndexAfterLoad(index, Len(calls) + 1) ELSE index
        /\ CASE ld = "hit" ->
                  /\ log' = Append(log, Info("Index loaded for key: %s"))
                  /\ pc' = ret
                  /\ UNCHANGED <<exit, outcome>>
             [] ld = "interrupt" ->
                  /\ Interrupted("ensure_interrupt")
                  /\ UNCHANGED log
             [] OTHER ->
                  /\ pc' = "ensure_prompt"
                  /\ UNCHANGED <<log, exit, outcome>>
    /\ UNCHANGED <<env, cfg, raised, snap, trace, ret, pyver, heavy, persisted,
                   agent_manager, answer, query, stdout>>

\* resp = input("No index found ...").strip().lower(); input() may raise
\* EOFError, which the outer "except Exception" logs
EnsurePrompt ==
    /\ pc = "ensure_prompt"
    /\ \/ \E line \in Lines :
            /\ answer' = Str(line)
            /\ IF Confirms(line)
               THEN /\ log' = Append(log, Info("Creating index for key: %s"))
                    /\ pc' = "ensure_create"
               ELSE /\ log' = Append(log, Warning("No index available. The agent may not be able to answer content questions."))
                    /\ pc' = ret
            /\ UNCHANGED <<exit, outcome>>
       \/ /\ log' = Append(log, Error("Error while ensuring index: %s"))
          /\ pc' = ret
          /\ UNCHANGED <<answer, exit, outcome>>
       \/ /\ Interrupted("ensure_interrupt")
          /\ UNCHANGED <<answer, log>>
    /\ UNCHANGED <<env, cfg, raised, snap, trace, ret, pyver, heavy, persisted,
                   index, agent_manager, calls, query, stdout>>

\* rag.create_index(key_name), under the outer "except Exception"
EnsureCreate ==
    /\ pc = "ensure_create"
    /\ \E st \in {"ok", "raise", "interrupt"} :
        /\ RAGAgent_create_index("ensure_index", st)
        /\ CASE st = "ok" ->
                  /\ log' = Append(log, Info("Index created and stored for key: %s"))
                  /\ pc' = ret
                  /\ UNCHANGED <<exit, outcome>>
             [] st = "raise" ->
                  /\ log' = Append(log, Error("Error while ensuring index: %s"))
                  /\ pc' = ret
                  /\ UNCHANGED <<exit, outcome>>
             [] OTHER ->
                  /\ Interrupted("ensure_interrupt")
                  /\ UNCHANGED log
    /\ UNCHANGED <<env, cfg, raised, snap, trace, ret, pyver, heavy, answer,
                   query, stdout>>

----------------------------------------------------------------------------
(* run_agent.py: main().  trace holds the steps main() has started.         *)

PyVersions == {<<2, 7>>, <<3, 10>>, <<3, 11>>, <<3, 12>>, <<3, 13>>, <<4, 0>>}

\* Compatible without the "major > 3" test
Compatible_MinorOnly(v) == ~(v[1] = 3 /\ v[2] >= 12)

\* check_python_compatibility()
Compatible(v) == ~(v[1] > 3 \/ (v[1] = 3 /\ v[2] >= 12))

QueryChars == {"q", " ", "\t"}
QueryLines == Texts(QueryChars, MaxLineLen)

\* BlankQuery without the strip()
BlankQuery_NoStrip(line) == line = <<>>

\* query = input(...).strip(); "if not query"
BlankQuery(line) == Strip(line) = <<>>

MainEnvs ==
    [OPENAI_API_KEY : Opt({<<"k","1">>}),
     MODEL_TYPE : Opt({<<"O","p","e","n","A","I">>, ollama}),
     OLLAMA_BASE_URL : {Unset}, OLLAMA_MODEL : Opt({<<"m">>}),
     STORE_TYPE : Opt({mongodb}), STORE_HOST : {Unset},
     STORE_PORT : {Unset}, MONGODB_URI : Opt({<<"u",":","p","@","h">>}),
     NAMESPACE : {Unset}, MONGODB_DB : {Unset}, CHUNK_SIZE : {Unset}]

Init ==
    /\ env \in MainEnvs
    /\ pyver \in PyVersions
    /\ persisted \in BOOLEAN
    /\ cfg = NoConfig
    /\ raised = <<>>
    /\ log = <<>>
    /\ snap = NoSnap
    /\ trace = <<>>
    /\ pc = "main"
    /\ ret = "query"
    /\ exit = "running"
    /\ outcome = "none"
    /\ heavy = FALSE
    /\ index = NoIndex
    /\ agent_manager = NoAgent
    /\ calls = <<>>
    /\ answer = Unset
    /\ query = Unset
    /\ stdout = <<>>

\* Logger.setup(); logging.info(...); config = load_config_from_env()
LoadConfig ==
    /\ pc = "main"
    /\ log' = Append(log, Info("Starting SiteScoutAI RAG agent"))
    /\ cfg' = ConfigInit(env)
    /\ trace' = Append(trace, "Config")
    /\ pc' = "validate"
    /\ UNCHANGED <<env, raised, snap, ret>>
    /\ UNCHANGED mainVars
    /\ UNCHANGED ragVars

\* config.validate(strict=True), sys.exit(2) on RuntimeError; else the
\* effective configuration is logged
ValidateConfig ==
    /\ pc = "validate"
    /\ trace' = Append(trace, "validate_strict")
    /\ raised' = raised \o ValidateRaises(cfg, TRUE)
    /\ IF ValidateRaises(cfg, TRUE) # <<>>
       THEN /\ log' = log \o ValidateLogs(cfg, TRUE)
                      \o <<[level |-> "ERROR",
                            msg |-> <<"Configuration validation failed: %s">>
                                    \o ValidateRaises(cfg, TRUE)[1].msg]>>
            /\ exit' = "exit 2"
            /\ outcome' = "config_invalid"
            /\ pc' = "done"
            /\ UNCHANGED snap
       ELSE /\ snap' = AsDict(cfg)
            /\ log' = log \o ValidateLogs(cfg, TRUE)
                      \o <<Info("Effective configuration: %s")>>
            /\ pc' = "compat"
            /\ UNCHANGED <<exit, outcome>>
    /\ UNCHANGED <<env, cfg, ret, pyver, heavy, query, stdout>>
    /\ UNCHANGED ragVars

\* the runtime information main() logs once the interpreter is accepted
RuntimeLog(c) ==
    <<Info("Runtime information:"), Info("  Python version: %s"),
      Info("  LLM provider: %s"), Info("  LLM model: %s"),
      Info("  Storage backend: %s"), Info("  Namespace / key: %s")>>
    \o (IF Lower(c.MODEL_TYPE) = openai /\ ~Truthy(c.OPENAI_API_KEY)
        THEN <<Warning("OPENAI_API_KEY not set, but MODEL_TYPE=openai")>>
        ELSE IF ~Truthy(c.OPENAI_API_KEY)
        THEN <<Info("No OpenAI API key provided.")>>
        ELSE <<>>)

\* CheckCompat without the sys.exit(1): the error is logged and main goes on
CheckCompat_NoExit ==
    /\ pc = "compat"
    /\ trace' = Append(trace, "check_python_compatibility")
    /\ IF Compatible(pyver)
       THEN log' = log \o RuntimeLog(cfg)
       ELSE log' = Append(log, Error("Incompatible Python version detected: %s.%s."))
                   \o RuntimeLog(cfg)
    /\ pc' = "construct"
    /\ UNCHANGED <<env, cfg, raised, snap, ret, pyver, exit, outcome, heavy, query, stdout>>
    /\ UNCHANGED ragVars

\* if not check_python_compatibility(): sys.exit(1)
CheckCompat ==
    /\ pc = "compat"
    /\ trace' = Append(trace, "check_python_compatibility")
    /\ IF Compatible(pyver)
       THEN /\ log' = log \o RuntimeLog(cfg)
            /\ pc' = "construct"
            /\ UNCHANGED <<exit, outcome>>
       ELSE /\ log' = Append(log, Error("Incompatible Python version detected: %s.%s."))
            /\ exit' = "exit 1"
            /\ outcome' = "incompatible"
            /\ pc' = "done"
    /\ UNCHANGED <<env, cfg, raised, snap, ret, pyver, heavy, query, stdout>>
    /\ UNCHANGED ragVars

\* rag = create_rag_agent(config): the import of agent.chat.manager and the
\* RAGAgent constructor may raise; then ensure_index(rag, key_name) is called
CreateAgent ==
    /\ pc = "construct"
    /\ heavy' = TRUE
    /\ \E st \in {"ok", "import_raise", "init_raise", "interrupt"} :
        /\ trace' = trace \o (IF st = "ok" THEN <<"create_rag_agent", "ensure_index">>
                                           ELSE <<"create_rag_agent">>)
        /\ CASE st = "ok" ->
               /\ pc' = "ensure_load"
               /\ UNCHANGED <<log, exit, outcome>>
             [] st = "import_raise" ->
               /\ log' = log \o <<Error("Failed to import RAGAgent; likely a dependency compatibility issue: %s"),
                                  Error("If this is due to SQLAlchemy / Python incompatibility, ..."),
                                  Error("For debugging, run: ..."),
                                  Error("Unable to initialize the RAG agent due to import or dependency issues.")>>
               /\ exit' = "returned"
               /\ outcome' = "construct_failed"
               /\ pc' = "done"
             [] st = "init_raise" ->
               /\ log' = Append(log, Error("Unable to initialize the RAG agent due to import or dependency issues."))
               /\ exit' = "returned"
               /\ outcome' = "construct_failed"
               /\ pc' = "done"
             [] OTHER ->
               /\ Interrupted("construct_interrupt")
               /\ UNCHANGED log
    /\ UNCHANGED <<env, cfg, raised, snap, ret, pyver, query, stdout>>
    /\ UNCHANGED ragVars

\* query = input("Enter your question (single-line): ").strip()
ReadQuery ==
    /\ pc = "query"
    /\ trace' = Append(trace, "input")
    /\ \/ \E line \in QueryLines :
            /\ query' = Str(line)
            /\ IF BlankQuery(line)
               THEN /\ log' = Append(log, Info("No query provided. Exiting."))
                    /\ exit' = "returned"
                    /\ outcome' = "empty_query"
                    /\ pc' = "done"
               ELSE /\ log' = Append(log, Info("Query received - sending to agent..."))
                    /\ pc' = "ask"
                    /\ UNCHANGED <<exit, outcome>>
       \/ /\ log' = Append(log, Error("Error while running agent: %s"))
          /\ exit' = "returned"
          /\ outcome' = "agent_error"
          /\ pc' = "done"
          /\ UNCHANGED query
       \/ /\ log' = Append(log, Info("Aborted by user"))
          /\ exit' = "returned"
          /\ outcome' = "query_interrupt"
          /\ pc' = "done"
          /\ UNCHANGED query
    /\ UNCHANGED <<env, cfg, raised, snap, ret, pyver, heavy, stdout>>
    /\ UNCHANGED ragVars

\* response = asyncio.run(ask_agent(rag, query, key_name)); print(...)
AskAgent ==
    /\ pc = "ask"
    /\ trace' = Append(trace, "run")
    /\ \E ld \in RunLoads : \E res \in RunEnds(ld) :
        /\ RAGAgent_run(ld, res)
        /\ CASE res = "ok" ->
                  /\ stdout' = <<"--- Agent response ---", "response", "--- End response ---">>
                  /\ outcome' = "printed"
                  /\ UNCHANGED log
             [] res = "interrupt" ->
                  /\ log' = Append(log, Info("Aborted by user"))
                  /\ outcome' = "query_interrupt"
                  /\ UNCHANGED stdout
             [] OTHER ->
                  /\ log' = Append(log, Error("Error while running agent: %s"))
                  /\ outcome' = "agent_error"
                  /\ UNCHANGED stdout
    /\ exit' = "returned"
    /\ pc' = "done"
    /\ UNCHANGED <<env, cfg, raised, snap, ret, pyver, heavy, answer, query>>

Next ==
    \/ LoadConfig
    \/ ValidateConfig
    \/ CheckCompat
    \/ CreateAgent
    \/ EnsureLoad
    \/ EnsurePrompt
    \/ EnsureCreate
    \/ ReadQuery
    \/ AskAgent

Spec == Init /\ [][Next]_vars

----------------------------------------------------------------------------
(* A caller that holds one RAGAgent and calls create_index, ensure_index    *)
(* and run in any order.                                                    *)

AgentEnv ==
    [OPENAI_API_KEY |-> Str(<<"k","1">>), MODEL_TYPE |-> Unset,
     OLLAMA_BASE_URL |-> Unset, OLLAMA_MODEL |-> Unset,
     STORE_TYPE |-> Unset, STORE_HOST |-> Unset, STORE_PORT |-> Unset,
     MONGODB_URI |-> Unset, NAMESPACE |-> Unset, MONGODB_DB |-> Unset,
     CHUNK_SIZE |-> Unset]

InitAgent ==
    /\ env = AgentEnv
    /\ pyver = <<3, 11>>
    /\ persisted \in BOOLEAN
    /\ cfg = ConfigInit(AgentEnv)
    /\ raised = <<>>
    /\ log = <<>>
    /\ snap = NoSnap
    /\ trace = <<>>
    /\ pc = "caller"
    /\ ret = "caller"
    /\ exit = "running"
    /\ outcome = "none"
    /\ heavy = TRUE
    /\ index = NoIndex
    /\ agent_manager = NoAgent
    /\ calls = <<>>
    /\ answer = Unset
    /\ query = Unset
    /\ stdout = <<>>

CallCreateIndex ==
    /\ pc = "caller"
    /\ Len(trace) < MaxCalls
    /\ \E st \in {"ok", "raise"} : RAGAgent_create_index("caller", st)
    /\ trace' = Append(trace, "create_index")
    /\ UNCHANGED <<pc, ret, answer>>
    /\ UNCHANGED cfgVars
    /\ UNCHANGED mainVars

CallEnsureIndex ==
    /\ pc = "caller"
    /\ Len(trace) < MaxCalls
    /\ pc' = "ensure_load"
    /\ trace' = Append(trace, "ensure_index")
    /\ UNCHANGED ret
    /\ UNCHANGED cfgVars
    /\ UNCHANGED mainVars
    /\ UNCHANGED ragVars

CallRun ==
    /\ pc = "caller"
    /\ Len(trace) < MaxCalls
    /\ \E ld \in RunLoads : \E res \in RunEnds(ld) : RAGAgent_run(ld, res)
    /\ trace' = Append(trace, "run")
    /\ UNCHANGED <<pc, ret, answer>>
    /\ UNCHANGED cfgVars
    /\ UNCHANGED mainVars

NextAgent ==
    \/ CallCreateIndex
    \/ CallEnsureIndex
    \/ CallRun
    \/ EnsureLoad
    \/ EnsurePrompt
    \/ EnsureCreate

SpecAgent == InitAgent /\ [][NextAgent]_vars

----------------------------------------------------------------------------
(* Properties.  The cases are stated on the environment and on what was     *)
(* observed (raised, log, snap, calls, trace), not through the operators    *)
(* above.                                                                   *)

Range(f) == {f[i] : i \in DOMAIN f}
Count(f, x) == Cardinality({i \in DOMAIN f : f[i] = x})
IsPrefix(a, b) == Len(a) <= Len(b) /\ \A i \in DOMAIN a : a[i] = b[i]
IsWarning(r) == r.level = "WARNING"
Warnings == SelectSeq(log, IsWarning)
Absent(o) == ~o.set \/ o.text = <<>>

\* t spells w up to letter case
CaseVariants(c) ==
    {c} \cup {UpperAlpha[i] : i \in {j \in 1..Len(LowerAlpha) : LowerAlpha[j] = c}}
Spells(t, w) == Len(t) = Len(w) /\ \A i \in DOMAIN w : t[i] \in CaseVariants(w[i])

\* every strict validate() so far raised a RuntimeError naming err, every
\* non-strict one returned and logged one warning with that same message
FailsWith(err) ==
    /\ Len(raised) = Count(trace, "validate_strict")
    /\ Len(Warnings) = Count(trace, "validate")
    /\ \A i \in DOMAIN raised :
         raised[i].type = "RuntimeError" /\ err \in Range(raised[i].msg)
    /\ \A i \in DOMAIN Warnings : err \in Range(Warnings[i].msg)
    /\ \A i \in DOMAIN Warnings : \A j \in DOMAIN raised :
         Warnings[i].msg = raised[j].msg

OpenAIWithoutKey ==
    /\ Absent(env.MODEL_TYPE) \/ Spells(env.MODEL_TYPE.text, openai)
    /\ Absent(env.OPENAI_API_KEY)

\* C1: when MODEL_TYPE resolves to openai (any letter case, or unset/empty)
\* and OPENAI_API_KEY is unset or empty, validate(strict=True) raises a
\* RuntimeError and validate(strict=False) returns, logging exactly one
\* warning that carries the same message.
C1_OpenAIKeyRequired == (cfg.built /\ OpenAIWithoutKey) => FailsWith(OpenAIKeyError)

C1_Witness ==
    /\ env.MODEL_TYPE = Str(<<"O","p","e","n","A","I">>)
    /\ env.OPENAI_API_KEY = Str(<<>>)
    /\ trace = <<"Config", "validate_strict", "validate">>
    /\ Len(raised) = 1
    /\ Len(Warnings) = 1

MongoWithoutAddress ==
    /\ env.STORE_TYPE = Str(mongodb)
    /\ ~env.MONGODB_URI.set
    /\ ~(env.STORE_HOST.set /\ env.STORE_PORT.set)

\* C2: when STORE_TYPE=mongodb and neither MONGODB_URI is set nor both
\* STORE_HOST and STORE_PORT are set (all three may be absent), validate
\* fails as in C1: strict raises a RuntimeError, non-strict logs a warning.
C2_MongoAddressRequired == (cfg.built /\ MongoWithoutAddress) => FailsWith(MongoError)

\* t is an integer literal: whitespace, an optional sign, digits s..e,
\* whitespace
DigitSpan(t, s, e) ==
    /\ s <= e
    /\ \A k \in s..e : IsDigit(t[k])
    /\ \A k \in (e + 1)..Len(t) : t[k] \in Whitespace
    /\ \/ \A k \in 1..(s - 1) : t[k] \in Whitespace
       \/ /\ s >= 2
          /\ t[s - 1] \in {"+", "-"}
          /\ \A k \in 1..(s - 2) : t[k] \in Whitespace
IntegerText(t) == \E s \in 1..Len(t) : \E e \in s..Len(t) : DigitSpan(t, s, e)

RECURSIVE Pow10(_)
Pow10(n) == IF n = 0 THEN 1 ELSE 10 * Pow10(n - 1)

RECURSIVE SumDigits(_, _, _)
SumDigits(t, s, e) ==
    IF s > e THEN 0 ELSE DigitVal(t[s]) * Pow10(e - s) + SumDigits(t, s + 1, e)

IntegerOf(t) ==
    LET s == CHOOSE s \in 1..Len(t) : \E e \in s..Len(t) : DigitSpan(t, s, e)
        e == CHOOSE e \in s..Len(t) : DigitSpan(t, s, e)
    IN IF s >= 2 /\ t[s - 1] = "-" THEN 0 - SumDigits(t, s, e) ELSE SumDigits(t, s, e)

FallsBack(o, field, d) ==
    IF o.set /\ IntegerText(o.text) THEN field = IntegerOf(o.text) ELSE field = d

\* C8: CHUNK_SIZE and STORE_PORT each become the parsed integer when the
\* variable holds an integer literal, and the default (1024, 6379) when it is
\* absent or not parseable; constructing the Config raises nothing.
C8_IntegerDefaults ==
    cfg.built =>
        /\ FallsBack(env.CHUNK_SIZE, cfg.CHUNK_SIZE, 1024)
        /\ FallsBack(env.STORE_PORT, cfg.STORE_PORT, 6379)
        /\ (trace = <<"Config">> => raised = <<>>)

C8_Witness ==
    /\ cfg.built
    /\ env.CHUNK_SIZE = Str(<<"a">>)
    /\ env.STORE_PORT = Str(<<"-", "7">>)
    /\ cfg.CHUNK_SIZE = 1024
    /\ cfg.STORE_PORT = 0 - 7

\* the positions of a connection string that hold the password
PasswordAt(t) ==
    {i \in DOMAIN t : \E c \in 1..(i - 1) : \E d \in (i + 1)..Len(t) :
        t[c] = ":" /\ t[d] = "@"}
SamePublicPart(a, b) ==
    /\ Len(a) = Len(b)
    /\ PasswordAt(a) = PasswordAt(b)
    /\ \A i \in DOMAIN a : i \notin PasswordAt(a) => a[i] = b[i]

\* the environments that differ from e only in the value of a credential
CredentialVariants(e) ==
    {[e EXCEPT !.OPENAI_API_KEY = k, !.MONGODB_URI = u] :
        k \in IF Truthy(e.OPENAI_API_KEY)
              THEN {Str(t) : t \in KeyTexts \ {<<>>}}
              ELSE {e.OPENAI_API_KEY},
        u \in IF Truthy(e.MONGODB_URI)
              THEN {Str(t) : t \in {x \in UriTexts : SamePublicPart(x, e.MONGODB_URI.text)}}
              ELSE {e.MONGODB_URI}}

\* C9: as_dict() is redacted: two environments that differ only in the value
\* of a credential (OPENAI_API_KEY, or the password in MONGODB_URI) give the
\* same dictionary.
C9_SnapshotRedacted ==
    snap.taken => \A e \in CredentialVariants(env) : AsDict(ConfigInit(e)) = snap

----------------------------------------------------------------------------
(* Properties of the RAGAgent and of main().                                *)

LoadByRun(c) == c.op = "load_index" /\ c.by = "run"
Obtained(c) == c.op \in {"load_index", "create_index"} /\ c.h # 0
Created(c) == c.op = "create_index" /\ c.st = "ok"

LastCreatedBefore(j) ==
    LET made == {i \in 1..(j - 1) : Created(calls[i])}
    IN CHOOSE i \in made : \A k \in made : k <= i

EnsurePcs == {"ensure_load", "ensure_prompt", "ensure_create"}
Last(f) == f[Len(f)]

\* C6: in ensure_index a load that returns nothing or raises is followed by
\* the confirmation prompt, and every step of ensure_index that is not a
\* keyboard interrupt either goes on inside ensure_index or returns to
\* main(), which is then at the question prompt with the process running.
C6_EnsureIndexFailsSoft ==
    [][/\ (pc = "ensure_load" /\ Last(calls').st \in {"miss", "raise"})
            => (pc' = "ensure_prompt" /\ exit' = "running")
       /\ (pc \in EnsurePcs /\ outcome' # "ensure_interrupt")
            => (pc' \in EnsurePcs \cup {"query"} /\ exit' = "running")]_vars

C6_Witness ==
    /\ pc = "query"
    /\ exit = "running"
    /\ Len(calls) = 2
    /\ calls[1] = Call("load_index", "ensure_index", 0, "raise")
    /\ calls[2] = Call("create_index", "ensure_index", 0, "raise")

AllWhitespace(t) == \A i \in DOMAIN t : t[i] \in Whitespace
AgentInvoked ==
    \/ \E i \in DOMAIN calls : calls[i].by = "run"
    \/ agent_manager # NoAgent
    \/ stdout # <<>>

\* C7: after an empty or whitespace-only question main() has returned without
\* calling run(), building an AgentManager, calling chat() or printing; the
\* agent is invoked only after a question with a non-whitespace character.
C7_BlankQuerySkipsAgent ==
    /\ (query.set /\ AllWhitespace(query.text)) =>
          (~AgentInvoked /\ pc = "done" /\ exit = "returned")
    /\ AgentInvoked => (query.set /\ ~AllWhitespace(query.text))

C7_Witness ==
    /\ query = Str(<<" ", "\t">>)
    /\ index # NoIndex
    /\ pc = "done"
    /\ ~AgentInvoked

\* spaces, one y or Y, spaces
YesLine(t) ==
    \E i \in DOMAIN t :
        /\ t[i] \in {"y", "Y"}
        /\ \A j \in DOMAIN t : j # i => t[j] \in Whitespace

\* C10: create_index is called at most once, by ensure_index only, right
\* after its load_index found no index (nothing, or an exception) and the
\* answer to the prompt, trimmed and lower-cased, was "y"; never by run();
\* never when ensure_index loaded an index.
C10_CreateOnlyOnRequest ==
    /\ Cardinality({i \in DOMAIN calls : calls[i].op = "create_index"}) <= 1
    /\ \A i \in DOMAIN calls :
         calls[i].op = "create_index" =>
            /\ calls[i].by = "ensure_index"
            /\ i = 2
            /\ calls[1].op = "load_index"
            /\ calls[1].by = "ensure_index"
            /\ calls[1].st \in {"miss", "raise"}
            /\ answer.set
            /\ YesLine(answer.text)
    /\ (calls # <<>> /\ calls[1].st = "hit") =>
         \A i \in DOMAIN calls : calls[i].op # "create_index"

C10_Witness ==
    /\ outcome = "printed"
    /\ answer = Str(<<" ", "Y">>)
    /\ calls[1] = Call("load_index", "ensure_index", 0, "miss")
    /\ calls[2] = Call("create_index", "ensure_index", 2, "ok")
    /\ Len(calls) = 4

\* the interpreter the dependencies reject: major > 3, or 3.12 and later
Incompatible(v) == v[1] > 3 \/ (v[1] = 3 /\ v[2] >= 12)

Started(step) == \E i \in DOMAIN trace : trace[i] = step

\* each step began only after the one before it had completed without ending
\* main(); the heavy import comes after both checks
StepsCompleted ==
    /\ Started("validate_strict") => cfg.built
    /\ Started("create_rag_agent") => (raised = <<>> /\ ~Incompatible(pyver))
    /\ heavy => (Started("validate_strict") /\ Started("check_python_compatibility")
                 /\ raised = <<>> /\ ~Incompatible(pyver))
    /\ calls # <<>> => (Started("ensure_index") /\ calls[1].by = "ensure_index")
    /\ Started("input") => (calls # <<>> /\ pc \notin EnsurePcs)
    /\ Started("run") => (query.set /\ ~AllWhitespace(query.text))
    /\ stdout # <<>> => Started("run")

ClaimedOrder ==
    <<"check_python_compatibility", "Config", "validate_strict",
      "create_rag_agent", "ensure_index", "input", "run">>
CodeOrder ==
    <<"Config", "validate_strict", "check_python_compatibility",
      "create_rag_agent", "ensure_index", "input", "run">>

\* C3 as stated: main() runs the interpreter check, then the configuration
\* load and strict validation, then the orchestrator construction with its
\* heavy imports, ensure_index, the question prompt and the run, each after
\* the one before it completed.
C3_OrderAsStated == IsPrefix(trace, ClaimedOrder) /\ StepsCompleted

\* C3, amended: the configuration load and strict validation come first and
\* the interpreter check second; the rest of the order is as stated, each
\* step after the one before it completed, and both checks precede the heavy
\* import.
C3_OrderInCode == IsPrefix(trace, CodeOrder) /\ StepsCompleted

C3_Witness == trace = CodeOrder /\ outcome = "printed" /\ heavy

ListedPaths ==
    {"construct_failed", "empty_query", "agent_error", "query_interrupt", "printed"}

\* C4 as stated: main() ends with status 2 exactly when strict validation
\* fails, with status 1 exactly when the interpreter is incompatible, and
\* returns normally on every other listed path.
C4_ExitAsStated ==
    pc = "done" =>
        /\ (exit = "exit 2") <=> (raised # <<>>)
        /\ (exit = "exit 1") <=> Incompatible(pyver)
        /\ outcome \in ListedPaths => exit = "returned"

\* C4, amended: status 2 exactly when strict validation fails, status 1
\* exactly when validation passes and the interpreter is incompatible, and a
\* normal return on every other listed path.
C4_ExitInCode ==
    pc = "done" =>
        /\ (exit = "exit 2") <=> (raised # <<>>)
        /\ (exit = "exit 1") <=> (raised = <<>> /\ Incompatible(pyver))
        /\ outcome \in ListedPaths => exit = "returned"
        /\ (raised = <<>> /\ ~Incompatible(pyver)) =>
              (outcome \in ListedPaths \/ exit = "KeyboardInterrupt")

C4_Witness ==
    /\ pc = "done"
    /\ exit = "exit 1"
    /\ pyver = <<4, 0>>
    /\ raised = <<>>

====
